---- MODULE Spec2Model ----
(***************************************************************************)
(* A state-machine model of rsync_receiver() and post_dir() of             *)
(* openrsync's receiver.c.  The receiver is one sequential function: its   *)
(* position is the variable pc, whose labels name the statements of the    *)
(* function in source order.  Every call the function makes into another   *)
(* translation unit or into the C library is a nondeterministic choice     *)
(* over the results that call can return.                                   *)
(***************************************************************************)
EXTENDS Integers, Sequences, FiniteSets, TLC

(* ------------------------------ bounds --------------------------------- *)

\* longest file list the remote sends
MaxFiles == 2

(* ---------------------------- C constants ------------------------------ *)

NULL == "NULL"
\* a struct flist pointer that is NULL, and one that points at list l
NullList == [null |-> TRUE, list |-> <<>>]
ListPtr(l) == [null |-> FALSE, list |-> l]
\* poll(2) timeout meaning "wait forever"
INFTIM == -1
\* the descriptor open() hands back for the destination root
ROOTFD == 3
\* the descriptor the uploader leaves in pfd[1].fd while a file is opening
FILEFD == 4
\* st.mode of a directory (040755) and of a regular file (0100644)
S_IFDIR_0755 == 16877
S_IFREG_0644 == 33188

\* S_ISDIR(m): (m & S_IFMT) == S_IFDIR, S_IFMT = 0170000, S_IFDIR = 0040000
S_ISDIR(m) == (m \div 4096) % 16 = 4

(* ------------------------------ inputs --------------------------------- *)

\* struct flist: path (as its components) and st.mode
Entries ==
  { [path |-> <<"sub">>, mode |-> S_IFDIR_0755],
    [path |-> <<"sub", "deep">>, mode |-> S_IFDIR_0755],
    [path |-> <<"sub", "a.txt">>, mode |-> S_IFREG_0644] }

\* sequences of pairwise distinct entries, at most n long
DistinctSeqs(S, n) ==
  UNION { { s \in [1..k -> S] : \A a, b \in 1..k : a # b => s[a] # s[b] } :
          k \in 0..n }

\* the file lists flist_recv can deliver
FileLists == DistinctSeqs(Entries, MaxFiles)

\* the local lists flist_gen_local can collect: an empty destination, and
\* one that holds a directory of the remote list and a file that is not in it
LocalLists ==
  { <<>>,
    << [path |-> <<"sub">>, mode |-> S_IFDIR_0755],
       [path |-> <<"stale.txt">>, mode |-> S_IFREG_0644] >> }

\* values io_read_int can deliver
WireInts == {-1, 0, 1}

\* struct opts, as set by the command line
Opts ==
  [server : BOOLEAN, dry_run : BOOLEAN, recursive : BOOLEAN, del : BOOLEAN,
   preserve_times : BOOLEAN, preserve_perms : BOOLEAN]

\* the calls the receiver makes outside the transfer loop
Ops ==
  {"pledge", "write_preamble", "flist_recv", "mkpath", "umask", "open",
   "flist_gen_local", "unveil", "lockdown", "flist_del", "calloc",
   "write_phase_end", "read_phase_ack", "sess_stats_recv", "write_goodbye",
   "close", "flist_free_fl", "flist_free_dfl", "free_newdir"}

(* ------------------------------- state --------------------------------- *)

VARIABLES
  opts,        \* sess->opts
  mplex_reads, \* sess->mplex_reads
  remain,      \* sess->mplex_read_remain as this iteration's flush left it
  pc,          \* the statement rsync_receiver is about to execute
  rc,          \* the return code
  fl,          \* the received file list (flsz is its length)
  dfl,         \* the local file list, NULL until collected
  dfd,         \* the destination directory handle, -1 until opened
  newdir,      \* the per-entry "freshly created" flags, empty until allocated
  phase,       \* 0, 1, 2
  i,           \* the transfer cursor, then the fixup index
  pfd1,        \* pfd[1].fd
  timeo,       \* the timeout of this iteration's poll
  revents,     \* <<pfd[0].revents, pfd[1].revents>> of this iteration's poll
  dl,          \* the downloader's struct download, NULL when none
  veil,        \* what unveil has done to the process: none, root, locked
  live,        \* resources currently held: allocations and descriptors
  ints_read,   \* the integers io_read_int has delivered, in order
  calls,       \* how often each call of Ops has been made
  del_call,    \* the arguments and the veil at each call of flist_del
  enumerated,  \* the lists flist_gen_local collected and the veil then
  post,        \* the metadata calls post_dir has made, in order
  ran,         \* the sub-protocols invoked in the current loop iteration
  invoked,     \* the sub-protocols invoked so far in the session
  failed_at    \* the statement whose failure led to "out", else NULL

vars ==
  <<opts, mplex_reads, remain, pc, rc, fl, dfl, dfd, newdir, phase, i, pfd1,
    timeo, revents, dl, veil, live, ints_read, calls, del_call, enumerated,
    post, ran, invoked, failed_at>>

\* flsz
flsz == Len(fl)

\* ioerror: the integer read last
ioerror == ints_read[Len(ints_read)]

(* ------------------------- control-flow helpers ------------------------ *)

\* Order with the Deleter moved in front of the two unveil calls
OrderDelBeforeUnveil ==
  <<"pledge", "preamble", "flist_recv", "io_error", "empty", "mkpath", "umask",
    "open", "flist_gen_local", "flist_del", "unveil", "lockdown", "calloc",
    "poll", "uploader", "downloader", "rsync_downloader", "post", "post_dir",
    "phase_end", "phase_ack", "stats", "goodbye", "out", "done">>

\* Order with the enumeration moved behind the two unveil calls
OrderGenAfterUnveil ==
  <<"pledge", "preamble", "flist_recv", "io_error", "empty", "mkpath", "umask",
    "open", "unveil", "lockdown", "flist_gen_local", "flist_del", "calloc",
    "poll", "uploader", "downloader", "rsync_downloader", "post", "post_dir",
    "phase_end", "phase_ack", "stats", "goodbye", "out", "done">>

\* Order with the directory fixup moved in front of the transfer loop
OrderPostBeforeLoop ==
  <<"pledge", "preamble", "flist_recv", "io_error", "empty", "mkpath", "umask",
    "open", "flist_gen_local", "unveil", "lockdown", "flist_del", "calloc",
    "post", "post_dir", "poll", "uploader", "downloader", "rsync_downloader",
    "phase_end", "phase_ack", "stats", "goodbye", "out", "done">>

\* the statements of rsync_receiver in source order
Order ==
  <<"pledge", "preamble", "flist_recv", "io_error", "empty", "mkpath", "umask",
    "open", "flist_gen_local", "unveil", "lockdown", "flist_del", "calloc",
    "poll", "uploader", "downloader", "rsync_downloader", "post", "post_dir",
    "phase_end", "phase_ack", "stats", "goodbye", "out", "done">>

\* the statement that follows l
After(l) == Order[(CHOOSE k \in DOMAIN Order : Order[k] = l) + 1]

\* fall through to the next statement
Proceed == pc' = After(pc) /\ failed_at' = failed_at

\* goto out after an error
Fail == pc' = "out" /\ failed_at' = pc

\* one more call of op
Bump(op) == calls' = [calls EXCEPT ![op] = @ + 1]

(* ------------------------------- Init ---------------------------------- *)

Init ==
  /\ opts \in Opts
  /\ mplex_reads \in BOOLEAN
  /\ pc = "pledge"
  /\ rc = 0
  /\ fl = <<>>
  /\ dfl = NullList
  /\ dfd = -1
  /\ newdir = <<>>
  /\ phase = 0
  /\ i = 0
  /\ pfd1 = -1
  /\ remain = 0
  /\ timeo = 0
  /\ revents = <<{}, {}>>
  /\ dl = NULL
  /\ veil = "none"
  /\ live = {}
  /\ ints_read = <<>>
  /\ calls = [op \in Ops |-> 0]
  /\ del_call = <<>>
  /\ enumerated = <<>>
  /\ post = <<>>
  /\ ran = {}
  /\ invoked = {}
  /\ failed_at = NULL

(* ------------------------ setup: lines 103-223 -------------------------- *)

\* pledge("unveil rpath cpath wpath stdio fattr")
Pledge ==
  /\ pc = "pledge"
  /\ Bump("pledge")
  /\ \E ok \in BOOLEAN : IF ok THEN Proceed ELSE Fail
  /\ UNCHANGED <<opts, mplex_reads, remain, timeo, rc, fl, dfl, dfd, newdir,
                 phase, i, pfd1, revents, dl, veil, live, ints_read, del_call,
                 enumerated, post, ran, invoked>>

\* SendsPreamble with the role inverted
SendsPreambleServer == opts.server

\* whether the zero preamble is written
SendsPreamble == ~opts.server

\* if ( ! sess->opts->server && ! io_write_int(sess, fdout, 0))
Preamble ==
  /\ pc = "preamble"
  /\ IF SendsPreamble
       THEN /\ Bump("write_preamble")
            /\ \E ok \in BOOLEAN : IF ok THEN Proceed ELSE Fail
       ELSE /\ Proceed
            /\ UNCHANGED calls
  /\ UNCHANGED <<opts, mplex_reads, remain, timeo, rc, fl, dfl, dfd, newdir,
                 phase, i, pfd1, revents, dl, veil, live, ints_read, del_call,
                 enumerated, post, ran, invoked>>

\* flist_recv(sess, fdin, &fl, &flsz)
FlistRecv ==
  /\ pc = "flist_recv"
  /\ Bump("flist_recv")
  /\ \/ /\ Fail
        /\ UNCHANGED <<fl, live>>
     \/ \E l \in FileLists :
          /\ fl' = l
          /\ live' = live \cup {"fl"}
          /\ Proceed
  /\ UNCHANGED <<opts, mplex_reads, remain, timeo, rc, dfl, dfd, newdir, phase,
                 i, pfd1, revents, dl, veil, ints_read, del_call, enumerated,
                 post, ran, invoked>>

\* StatusOk without the comparison
StatusAny(v) == TRUE

\* the list status the session accepts
StatusOk(v) == v = 0

\* io_read_int(sess, fdin, &ioerror), then 0 != ioerror
IoError ==
  /\ pc = "io_error"
  /\ \/ /\ Fail
        /\ UNCHANGED ints_read
     \/ \E v \in WireInts :
          /\ ints_read' = Append(ints_read, v)
          /\ IF StatusOk(v) THEN Proceed ELSE Fail
  /\ UNCHANGED <<opts, mplex_reads, remain, timeo, rc, fl, dfl, dfd, newdir,
                 phase, i, pfd1, revents, dl, veil, live, calls, del_call,
                 enumerated, post, ran, invoked>>

\* EmptyExit with the negation of the role lost
EmptyExitServer == flsz = 0 /\ opts.server

\* 0 == flsz && ! sess->opts->server
EmptyExit == flsz = 0 /\ ~opts.server

\* the empty-list early exit
Empty ==
  /\ pc = "empty"
  /\ IF EmptyExit
       THEN /\ rc' = 1
            /\ pc' = "out"
            /\ failed_at' = failed_at
       ELSE /\ Proceed
            /\ rc' = rc
  /\ UNCHANGED <<opts, mplex_reads, remain, timeo, fl, dfl, dfd, newdir, phase,
                 i, pfd1, revents, dl, veil, live, ints_read, calls, del_call,
                 enumerated, post, ran, invoked>>

\* TouchesRoot without the dry-run test
TouchesRootAlways == TRUE

\* whether the receiver touches the destination itself
TouchesRoot == ~opts.dry_run

\* strdup(root), mkpath(sess, tofree)
Mkpath ==
  /\ pc = "mkpath"
  /\ IF TouchesRoot
       THEN \E strdup_ok \in BOOLEAN :
              IF strdup_ok
                THEN /\ Bump("mkpath")
                     /\ \E ok \in BOOLEAN : IF ok THEN Proceed ELSE Fail
                ELSE /\ Fail
                     /\ UNCHANGED calls
       ELSE /\ Proceed
            /\ UNCHANGED calls
  /\ UNCHANGED <<opts, mplex_reads, remain, timeo, rc, fl, dfl, dfd, newdir,
                 phase, i, pfd1, revents, dl, veil, live, ints_read, del_call,
                 enumerated, post, ran, invoked>>

\* oumask = umask(0)
Umask ==
  /\ pc = "umask"
  /\ Bump("umask")
  /\ Proceed
  /\ UNCHANGED <<opts, mplex_reads, remain, timeo, rc, fl, dfl, dfd, newdir,
                 phase, i, pfd1, revents, dl, veil, live, ints_read, del_call,
                 enumerated, post, ran, invoked>>

\* dfd = open(root, O_RDONLY | O_DIRECTORY, 0)
Open ==
  /\ pc = "open"
  /\ IF TouchesRoot
       THEN /\ Bump("open")
            /\ \/ /\ Fail
                  /\ UNCHANGED <<dfd, live>>
               \/ /\ dfd' = ROOTFD
                  /\ live' = live \cup {"dfd"}
                  /\ Proceed
       ELSE /\ Proceed
            /\ UNCHANGED <<calls, dfd, live>>
  /\ UNCHANGED <<opts, mplex_reads, remain, timeo, rc, fl, dfl, newdir, phase,
                 i, pfd1, revents, dl, veil, ints_read, del_call, enumerated,
                 post, ran, invoked>>

\* sess->opts->del && sess->opts->recursive
Enumerates == opts.del /\ opts.recursive

\* flist_gen_local(sess, root, &dfl, &dflsz)
FlistGenLocal ==
  /\ pc = "flist_gen_local"
  /\ IF Enumerates
       THEN /\ Bump("flist_gen_local")
            /\ \/ /\ Fail
                  /\ UNCHANGED <<dfl, live, enumerated>>
               \/ \E p \in {NullList} \cup {ListPtr(l) : l \in LocalLists} :
                    /\ dfl' = p
                    /\ live' = IF p.null THEN live ELSE live \cup {"dfl"}
                    /\ enumerated' =
                         Append(enumerated, [dfl |-> p, veil |-> veil])
                    /\ Proceed
       ELSE /\ Proceed
            /\ UNCHANGED <<calls, dfl, live, enumerated>>
  /\ UNCHANGED <<opts, mplex_reads, remain, timeo, rc, fl, dfd, newdir, phase,
                 i, pfd1, revents, dl, veil, ints_read, del_call, post, ran,
                 invoked>>

\* unveil(root, "rwc")
Unveil ==
  /\ pc = "unveil"
  /\ Bump("unveil")
  /\ \/ /\ Fail
        /\ veil' = veil
     \/ /\ veil' = "root"
        /\ Proceed
  /\ UNCHANGED <<opts, mplex_reads, remain, timeo, rc, fl, dfl, dfd, newdir,
                 phase, i, pfd1, revents, dl, live, ints_read, del_call,
                 enumerated, post, ran, invoked>>

\* unveil(NULL, NULL)
Lockdown ==
  /\ pc = "lockdown"
  /\ Bump("lockdown")
  /\ \/ /\ Fail
        /\ veil' = veil
     \/ /\ veil' = IF veil = "root" THEN "locked" ELSE veil
        /\ Proceed
  /\ UNCHANGED <<opts, mplex_reads, remain, timeo, rc, fl, dfl, dfd, newdir,
                 phase, i, pfd1, revents, dl, live, ints_read, del_call,
                 enumerated, post, ran, invoked>>

\* if (NULL != dfl) flist_del(sess, dfd, dfl, dflsz, fl, flsz)
FlistDel ==
  /\ pc = "flist_del"
  /\ IF ~dfl.null
       THEN /\ Bump("flist_del")
            /\ del_call' =
                 Append(del_call, [dfl |-> dfl, dfd |-> dfd, veil |-> veil])
            /\ \E ok \in BOOLEAN : IF ok THEN Proceed ELSE Fail
       ELSE /\ Proceed
            /\ UNCHANGED <<calls, del_call>>
  /\ UNCHANGED <<opts, mplex_reads, remain, timeo, rc, fl, dfl, dfd, newdir,
                 phase, i, pfd1, revents, dl, veil, live, ints_read,
                 enumerated, post, ran, invoked>>

\* newdir = calloc(flsz, sizeof(int)); pfd[1].fd = -1; i = 0
Calloc ==
  /\ pc = "calloc"
  /\ Bump("calloc")
  /\ \/ /\ Fail
        /\ UNCHANGED <<newdir, live, pfd1, i>>
     \/ /\ newdir' = [k \in 1..flsz |-> 0]
        /\ live' = live \cup {"newdir"}
        /\ pfd1' = -1
        /\ i' = 0
        /\ Proceed
  /\ UNCHANGED <<opts, mplex_reads, remain, timeo, rc, fl, dfl, dfd, phase,
                 revents, dl, veil, ints_read, del_call, enumerated, post, ran,
                 invoked>>

(* --------------------- transfer loop: lines 231-316 --------------------- *)

\* the revents poll can report for one watched descriptor
PollEvents == {{}, {"POLLIN"}, {"POLLERR"}, {"POLLNVAL"}, {"POLLHUP"}}

\* the revents poll can report for the two descriptors: an error condition
\* on one of them at a time
PollPairs(fd) ==
  { e \in PollEvents \X (IF fd = -1 THEN {{}} ELSE PollEvents) :
      (e[1] \ {"POLLIN"}) = {} \/ e[2] = {} }

\* Timeo with && for ||
TimeoBoth(cur, n, fd) == IF cur = n /\ fd # -1 THEN INFTIM ELSE 0

\* timeo = (i == flsz || -1 != pfd[1].fd) ? INFTIM : 0
Timeo(cur, n, fd) == IF cur = n \/ fd # -1 THEN INFTIM ELSE 0

\* poll(pfd, 2, tmo): -1, or the number of descriptors with events; a
\* negative descriptor reports nothing, an infinite wait returns only with
\* an event
PollResults(fd, tmo) ==
  {[c |-> -1, revents |-> <<{}, {}>>]} \cup
  { [c |-> (IF r0 = {} THEN 0 ELSE 1) + (IF r1 = {} THEN 0 ELSE 1),
     revents |-> <<r0, r1>>] :
    <<r0, r1>> \in
      { e \in PollPairs(fd) : tmo = INFTIM => (e[1] # {} \/ e[2] # {}) } }

\* PollFatal without the hangup check of the second descriptor
PollFatalNoHup1(res, rev) ==
  \/ res = -1
  \/ rev[1] \cap {"POLLERR", "POLLNVAL"} # {}
  \/ rev[2] \cap {"POLLERR", "POLLNVAL"} # {}
  \/ "POLLHUP" \in rev[1]

\* PollFatal without the hangup check of the inbound descriptor
PollFatalNoHup0(res, rev) ==
  \/ res = -1
  \/ rev[1] \cap {"POLLERR", "POLLNVAL"} # {}
  \/ rev[2] \cap {"POLLERR", "POLLNVAL"} # {}
  \/ "POLLHUP" \in rev[2]

\* the checks of lines 245-260
PollFatal(res, rev) ==
  \/ res = -1
  \/ rev[1] \cap {"POLLERR", "POLLNVAL"} # {}
  \/ rev[2] \cap {"POLLERR", "POLLNVAL"} # {}
  \/ "POLLHUP" \in rev[1]
  \/ "POLLHUP" \in rev[2]

\* the top of the loop: the timeout, the wait and its checks
Poll ==
  /\ pc = "poll"
  /\ timeo' = Timeo(i, flsz, pfd1)
  /\ \E r \in PollResults(pfd1, timeo') :
       /\ revents' = IF r.c = -1 THEN revents ELSE r.revents
       /\ IF PollFatal(r.c, revents') THEN Fail ELSE Proceed
  /\ UNCHANGED <<opts, mplex_reads, remain, rc, fl, dfl, dfd, newdir, phase, i,
                 pfd1, dl, veil, live, ints_read, calls, del_call, enumerated,
                 post, ran, invoked>>

\* RunsUploader without the cursor test
RunsUploaderReadable(cur, n, rev) == "POLLIN" \in rev[2]

\* i < flsz || POLLIN & pfd[1].revents
RunsUploader(cur, n, rev) == cur < n \/ "POLLIN" \in rev[2]

\* the flag arrays that differ from nd by newly set flags of directories
\* among entries a+1..b
NewdirAfter(nd, a, b) ==
  { f \in [1..flsz -> {0, 1}] :
      \A k \in 1..flsz :
        /\ nd[k] = 1 => f[k] = 1
        /\ (f[k] = 1 /\ nd[k] = 0) =>
             (a < k /\ k <= b /\ S_ISDIR(fl[k].mode)) }

\* rsync_uploader(fdout, dfd, &i, &pfd[1].fd, fl, flsz, sess, csum_length,
\* oumask, newdir): it advances the cursor, may leave a file descriptor for
\* the next wait, may flag created directories; negative on error
UploaderResults(cur, fd, nd) ==
  {[c |-> -1, i |-> cur, fd |-> fd, newdir |-> nd]} \cup
  { [c |-> 1, i |-> i2, fd |-> fd2, newdir |-> nd2] :
    <<i2, fd2, nd2>> \in
      { t \in (cur..flsz) \X {-1, FILEFD} \X NewdirAfter(nd, cur, flsz) :
          /\ t[3] \in NewdirAfter(nd, cur, t[1])
          /\ t[2] = FILEFD =>
               (t[1] < flsz /\ ~S_ISDIR(fl[t[1] + 1].mode)) } }

\* lines 268-276
Uploader ==
  /\ pc = "uploader"
  /\ IF RunsUploader(i, flsz, revents)
       THEN /\ ran' = ran \cup {"uploader"}
            /\ invoked' = invoked \cup {"uploader"}
            /\ \E u \in UploaderResults(i, pfd1, newdir) :
                 /\ i' = u.i
                 /\ pfd1' = u.fd
                 /\ newdir' = u.newdir
                 /\ live' = IF u.fd = -1 THEN live \ {"fd1"}
                                         ELSE live \cup {"fd1"}
                 /\ IF u.c < 0 THEN Fail ELSE Proceed
       ELSE /\ Proceed
            /\ UNCHANGED <<ran, invoked, i, pfd1, newdir, live>>
  /\ UNCHANGED <<opts, mplex_reads, remain, timeo, rc, fl, dfl, dfd, phase,
                 revents, dl, veil, ints_read, calls, del_call, enumerated,
                 post>>

\* POLLIN & pfd[0].revents
RunsDownloader(rev) == "POLLIN" \in rev[1]

\* io_read_flush(sess, fdin): failure, or success with the payload it left
\* in sess->mplex_read_remain after draining the multiplexed messages
FlushResults == {[ok |-> FALSE, remain |-> 0]} \cup
                {[ok |-> TRUE, remain |-> r] : r \in 0..1}

\* rsync_downloader(fdin, dfd, &dl, fl, flsz, sess): negative on error, zero
\* at the end of the phase, positive otherwise; it keeps at most one
\* struct download between calls
DownloaderResults ==
  {[c |-> -1, dl |-> NULL], [c |-> 0, dl |-> NULL],
   [c |-> 1, dl |-> NULL], [c |-> 1, dl |-> "dl"]}

\* the end of an iteration that goes round again: the timeout and the
\* events of its poll and the payload count of its flush are spent, the
\* next iteration overwrites them
Continue ==
  /\ pc' = "poll"
  /\ remain' = 0
  /\ failed_at' = failed_at
  /\ timeo' = 0
  /\ revents' = <<{}, {}>>
  /\ ran' = {}

\* the call of the downloader and what follows from its result
CallDownloader ==
  /\ invoked' = invoked \cup {"downloader"}
  /\ \E d \in DownloaderResults :
       /\ dl' = d.dl
       /\ live' = IF d.dl = NULL THEN live \ {"dl"} ELSE live \cup {"dl"}
       /\ IF d.c < 0
            THEN /\ Fail
                 /\ phase' = phase
                 /\ remain' = remain
                 /\ timeo' = timeo
                 /\ revents' = revents
                 /\ ran' = ran \cup {"downloader"}
            ELSE IF d.c = 0
              THEN /\ IF phase = 0
                        THEN phase' = phase + 1 /\ Proceed
                        ELSE phase' = phase /\ pc' = "abort"
                             /\ failed_at' = failed_at
                   /\ remain' = 0
                   /\ timeo' = 0
                   /\ revents' = <<{}, {}>>
                   /\ ran' = ran \cup {"downloader"}
              ELSE /\ Continue
                   /\ phase' = phase

\* MayDownload without the test of the payload left by the flush
MayDownloadUnflushed(rev, mplex, rem) == RunsDownloader(rev)

\* whether the iteration goes on to the call of the downloader, lines
\* 287-294; rem is what io_read_flush left in sess->mplex_read_remain
MayDownload(rev, mplex, rem) == RunsDownloader(rev) /\ (mplex => rem # 0)

\* lines 287-294: the test of the inbound stream and the flush of the
\* multiplexed messages
Downloader ==
  /\ pc = "downloader"
  /\ \E f \in (IF RunsDownloader(revents) /\ mplex_reads
                 THEN FlushResults
                 ELSE {[ok |-> TRUE, remain |-> remain]}) :
       IF ~f.ok
         THEN /\ Fail
              /\ UNCHANGED <<remain, timeo, revents, ran>>
         ELSE IF MayDownload(revents, mplex_reads, f.remain)
           THEN /\ Proceed
                /\ remain' = f.remain
                /\ UNCHANGED <<timeo, revents, ran>>
           ELSE Continue
  /\ UNCHANGED <<opts, mplex_reads, rc, fl, dfl, dfd, newdir, phase, i, pfd1,
                 dl, veil, live, ints_read, calls, del_call, enumerated, post,
                 invoked>>

\* lines 295-306
RsyncDownloader ==
  /\ pc = "rsync_downloader"
  /\ CallDownloader
  /\ UNCHANGED <<opts, mplex_reads, rc, fl, dfl, dfd, newdir, i, pfd1, veil,
                 ints_read, calls, del_call, enumerated, post>>

(* ------------------- directory fixup: lines 320-327 --------------------- *)

\* FixesDirs with && for ||
FixesDirsBoth == opts.preserve_times /\ opts.preserve_perms

\* sess->opts->preserve_times || sess->opts->preserve_perms
FixesDirs == opts.preserve_times \/ opts.preserve_perms

\* the guard of the fixup and the start of its for loop
Post ==
  /\ pc = "post"
  /\ IF FixesDirs
       THEN i' = 0 /\ Proceed
       ELSE i' = i /\ pc' = After("post_dir") /\ failed_at' = failed_at
  /\ UNCHANGED <<opts, mplex_reads, remain, timeo, rc, fl, dfl, dfd, newdir,
                 phase, pfd1, revents, dl, veil, live, ints_read, calls,
                 del_call, enumerated, post, ran, invoked>>

\* newdir || sess->opts->preserve_perms
SetsMode(nd) == nd # 0 \/ opts.preserve_perms

\* post_dir(sess, root, f, newdir): the metadata calls it makes and its
\* return value, for each way utimensat and fchmodat can turn out
post_dir(root, f, nd) ==
  LET ut == [op |-> "utimensat", root |-> root, path |-> f.path,
             arg |-> "mtime"]
      ch == [op |-> "fchmodat", root |-> root, path |-> f.path,
             arg |-> f.mode]
      times == IF opts.preserve_times THEN <<ut>> ELSE <<>>
  IN IF ~opts.recursive THEN {[ret |-> 1, ops |-> <<>>]}
     ELSE IF opts.dry_run THEN {[ret |-> 1, ops |-> <<>>]}
     ELSE (IF opts.preserve_times THEN {[ret |-> 0, ops |-> <<ut>>]}
                                  ELSE {}) \cup
          (IF SetsMode(nd)
             THEN {[ret |-> 0, ops |-> times \o <<ch>>],
                   [ret |-> 1, ops |-> times \o <<ch>>]}
             ELSE {[ret |-> 1, ops |-> times]})

\* one turn of the fixup loop, lines 322-326
PostDir ==
  /\ pc = "post_dir"
  /\ IF i < flsz
       THEN IF ~S_ISDIR(fl[i + 1].mode)
              THEN /\ i' = i + 1
                   /\ pc' = pc
                   /\ failed_at' = failed_at
                   /\ post' = post
              ELSE \E r \in post_dir(dfd, fl[i + 1], newdir[i + 1]) :
                     /\ post' = post \o r.ops
                     /\ IF r.ret = 0
                          THEN i' = i /\ Fail
                          ELSE /\ i' = i + 1
                               /\ pc' = pc
                               /\ failed_at' = failed_at
       ELSE /\ Proceed
            /\ UNCHANGED <<i, post>>
  /\ UNCHANGED <<opts, mplex_reads, remain, timeo, rc, fl, dfl, dfd, newdir,
                 phase, pfd1, revents, dl, veil, live, ints_read, calls,
                 del_call, enumerated, ran, invoked>>

(* -------------------- handshake: lines 331-362 -------------------------- *)

\* 1 == phase, io_write_int(sess, fdout, -1)
PhaseEnd ==
  /\ pc = "phase_end"
  /\ IF phase = 1
       THEN /\ Bump("write_phase_end")
            /\ \E ok \in BOOLEAN : IF ok THEN Proceed ELSE Fail
       ELSE /\ pc' = After("phase_ack")
            /\ failed_at' = failed_at
            /\ UNCHANGED calls
  /\ UNCHANGED <<opts, mplex_reads, remain, timeo, rc, fl, dfl, dfd, newdir,
                 phase, i, pfd1, revents, dl, veil, live, ints_read, del_call,
                 enumerated, post, ran, invoked>>

\* AckOk without the comparison
AckAny(v) == TRUE

\* the phase acknowledgement the session accepts
AckOk(v) == v = -1

\* PhaseAck without the phase++ of line 342
PhaseAckNoAdvance ==
  /\ pc = "phase_ack"
  /\ Bump("read_phase_ack")
  /\ \/ /\ Fail
        /\ UNCHANGED <<ints_read, phase>>
     \/ \E v \in WireInts :
          /\ ints_read' = Append(ints_read, v)
          /\ phase' = phase
          /\ IF AckOk(v) THEN Proceed ELSE Fail
  /\ UNCHANGED <<opts, mplex_reads, remain, rc, fl, dfl, dfd, newdir, i, pfd1,
                 timeo, revents, dl, veil, live, del_call, enumerated, post,
                 ran, invoked>>

\* io_read_int(sess, fdin, &ioerror), -1 != ioerror, phase++
PhaseAck ==
  /\ pc = "phase_ack"
  /\ Bump("read_phase_ack")
  /\ \/ /\ Fail
        /\ UNCHANGED <<ints_read, phase>>
     \/ \E v \in WireInts :
          /\ ints_read' = Append(ints_read, v)
          /\ IF AckOk(v)
               THEN phase' = phase + 1 /\ Proceed
               ELSE phase' = phase /\ Fail
  /\ UNCHANGED <<opts, mplex_reads, remain, timeo, rc, fl, dfl, dfd, newdir, i,
                 pfd1, revents, dl, veil, live, del_call, enumerated, post,
                 ran, invoked>>

\* whether the statistics are read
ReadsStats == ~opts.server

\* if ( ! sess->opts->server && ! sess_stats_recv(sess, fdin))
Stats ==
  /\ pc = "stats"
  /\ IF ReadsStats
       THEN /\ Bump("sess_stats_recv")
            /\ \E ok \in BOOLEAN : IF ok THEN Proceed ELSE Fail
       ELSE /\ Proceed
            /\ UNCHANGED calls
  /\ UNCHANGED <<opts, mplex_reads, remain, timeo, rc, fl, dfl, dfd, newdir,
                 phase, i, pfd1, revents, dl, veil, live, ints_read, del_call,
                 enumerated, post, ran, invoked>>

\* Goodbye with the result of the write ignored
GoodbyeUnchecked ==
  /\ pc = "goodbye"
  /\ Bump("write_goodbye")
  /\ rc' = 1
  /\ \E ok \in BOOLEAN : IF ok THEN Proceed ELSE Fail
  /\ UNCHANGED <<opts, mplex_reads, remain, timeo, fl, dfl, dfd, newdir, phase,
                 i, pfd1, revents, dl, veil, live, ints_read, del_call,
                 enumerated, post, ran, invoked>>

\* io_write_int(sess, fdout, -1); rc = 1
Goodbye ==
  /\ pc = "goodbye"
  /\ Bump("write_goodbye")
  /\ \E ok \in BOOLEAN :
       IF ok THEN rc' = 1 /\ Proceed ELSE rc' = rc /\ Fail
  /\ UNCHANGED <<opts, mplex_reads, remain, timeo, fl, dfl, dfd, newdir, phase,
                 i, pfd1, revents, dl, veil, live, ints_read, del_call,
                 enumerated, post, ran, invoked>>

(* ------------------------ teardown: lines 363-369 ----------------------- *)

\* Out without the release of the local file list
OutLeak ==
  /\ pc = "out"
  /\ calls' = [calls EXCEPT !["close"] = IF dfd # -1 THEN @ + 1 ELSE @,
                            !["flist_free_fl"] = @ + 1,
                            !["free_newdir"] = @ + 1]
  /\ live' = (live \ {"fl", "newdir"}) \ (IF dfd # -1 THEN {"dfd"} ELSE {})
  /\ Proceed
  /\ UNCHANGED <<opts, mplex_reads, remain, timeo, rc, fl, dfl, dfd, newdir,
                 phase, i, pfd1, revents, dl, veil, ints_read, del_call,
                 enumerated, post, ran, invoked>>

\* out: close(dfd); flist_free(fl); flist_free(dfl); free(newdir); return rc
Out ==
  /\ pc = "out"
  /\ calls' = [calls EXCEPT !["close"] = IF dfd # -1 THEN @ + 1 ELSE @,
                            !["flist_free_fl"] = @ + 1,
                            !["flist_free_dfl"] = @ + 1,
                            !["free_newdir"] = @ + 1]
  /\ live' = (live \ {"fl", "dfl", "newdir"}) \
               (IF dfd # -1 THEN {"dfd"} ELSE {})
  /\ Proceed
  /\ UNCHANGED <<opts, mplex_reads, remain, timeo, rc, fl, dfl, dfd, newdir,
                 phase, i, pfd1, revents, dl, veil, ints_read, del_call,
                 enumerated, post, ran, invoked>>

(* ------------------------------ properties ------------------------------ *)

\* the directories of the received list
DirPaths == { fl[k].path : k \in { n \in 1..flsz : S_ISDIR(fl[n].mode) } }

\* the paths post_dir has applied a timestamp or a mode to
Attempted == { post[k].path : k \in DOMAIN post }

\* the fixup loop has run to its end and the session goes on
PostDone == pc \in {"phase_end", "phase_ack", "stats", "goodbye"}

C2_EnumerationBeforeNarrowing ==
  /\ Len(enumerated) <= 1
  /\ \A k \in DOMAIN enumerated : enumerated[k].veil = "none"
  /\ (opts.del /\ opts.recursive /\ veil # "none") => Len(enumerated) = 1
  /\ \A k \in DOMAIN del_call :
       /\ Len(enumerated) = 1
       /\ del_call[k].dfl = enumerated[1].dfl

\* C2 witness: the Deleter got a non-empty list collected before narrowing
C2_Witness ==
  /\ Len(del_call) = 1
  /\ del_call[1].dfl.list # <<>>
  /\ veil = "locked"
  /\ pc = "poll"

C4_NonZeroStatusFails ==
  (Len(ints_read) >= 1 /\ ints_read[1] # 0) =>
    /\ pc \in {"out", "done"}
    /\ rc = 0
    /\ calls["mkpath"] = 0
    /\ calls["umask"] = 0
    /\ calls["open"] = 0
    /\ calls["flist_del"] = 0
    /\ post = <<>>

\* C4 witness: a session ended after reading status 1
C4_Witness ==
  /\ pc = "done"
  /\ ints_read = <<1>>
  /\ failed_at = "io_error"

\* C5: a top-level driver that received an empty list with status zero
\* returns success and never calls mkpath, unveil, the lock-down, the
\* Uploader or the Downloader, nor enters the transfer loop.
C5_EmptyListSucceeds ==
  (ints_read = <<0>> /\ flsz = 0 /\ ~opts.server) =>
    /\ pc \in {"empty", "out", "done"}
    /\ pc # "empty" => rc = 1
    /\ calls["mkpath"] = 0
    /\ calls["unveil"] = 0
    /\ calls["lockdown"] = 0
    /\ veil = "none"
    /\ calls["calloc"] = 0
    /\ invoked = {}

\* C5 witness: the early exit has returned success
C5_Witness ==
  /\ pc = "done"
  /\ rc = 1
  /\ fl = <<>>
  /\ ~opts.server
  /\ calls["flist_recv"] = 1

\* C6 as stated: in a session whose fixup has run to its end, the number of
\* directories post_dir applied metadata to equals the number of directory
\* entries, except that it is zero in simulation mode or without recursion.
C6_AttemptsEqualDirs ==
  PostDone =>
    IF opts.dry_run \/ ~opts.recursive
      THEN post = <<>>
      ELSE Cardinality(Attempted) = Cardinality(DirPaths)

\* C6 amended: in a session whose fixup has run to its end with timestamp or
\* permission preservation requested, recursion on and simulation off, the
\* directories post_dir applied metadata to are exactly the directory entries
\* of the list; no metadata is applied at all in simulation mode, without
\* recursion, or when neither preservation is requested.
C6_AttemptsEqualDirsWhenPreserving ==
  /\ (opts.dry_run \/ ~opts.recursive
        \/ ~(opts.preserve_times \/ opts.preserve_perms)) => post = <<>>
  /\ Attempted \subseteq DirPaths
  /\ PostDone =>
       IF opts.dry_run \/ ~opts.recursive
            \/ ~(opts.preserve_times \/ opts.preserve_perms)
         THEN post = <<>>
         ELSE /\ Attempted = DirPaths
              /\ Cardinality(Attempted) = Cardinality(DirPaths)

\* C6 witness: two directories fixed up, the fixup at its end
C6_Witness ==
  /\ pc = "phase_end"
  /\ Cardinality(DirPaths) = 2
  /\ Cardinality(Attempted) = 2

\* C7: when the wait fails or reports POLLERR, POLLNVAL or POLLHUP on either
\* descriptor the session goes straight to its failure exit: no Uploader or
\* Downloader call in that iteration, no directory fixup, no sentinel.
C7_ReadinessErrorFatal ==
  (\/ failed_at = "poll"
   \/ revents[1] \cap {"POLLERR", "POLLNVAL", "POLLHUP"} # {}
   \/ revents[2] \cap {"POLLERR", "POLLNVAL", "POLLHUP"} # {}) =>
    /\ pc \in {"out", "done"}
    /\ failed_at = "poll"
    /\ rc = 0
    /\ ran = {}
    /\ post = <<>>
    /\ calls["write_phase_end"] = 0
    /\ calls["write_goodbye"] = 0

\* C7 witness: a hangup of the inbound stream in a later iteration, while a
\* file descriptor of the uploader is pending
C7_Witness ==
  /\ pc = "done"
  /\ failed_at = "poll"
  /\ "POLLHUP" \in revents[1]
  /\ invoked = {"uploader", "downloader"}
  /\ pfd1 # -1

\* C8 as stated: the function returns success only after the goodbye
\* sentinel was sent.
C8_SuccessOnlyThroughGoodbye ==
  (pc = "done" /\ rc = 1) => calls["write_goodbye"] = 1

\* C8 amended: the function returns success exactly when no step failed, and
\* then either the session ran through the phase handshake to the goodbye
\* sentinel, or it is the early exit of a top-level driver with an empty
\* list; in every other case it returns failure.
C8_SuccessThroughGoodbyeOrEmpty ==
  pc = "done" =>
    /\ rc = 1 <=> failed_at = NULL
    /\ rc = 1 =>
         \/ /\ calls["write_goodbye"] = 1
            /\ calls["write_phase_end"] = 1
            /\ phase = 2
         \/ /\ flsz = 0 /\ ~opts.server
            /\ ints_read = <<0>>
            /\ calls["write_goodbye"] = 0
    /\ rc \in {0, 1}

\* C8 witness: a session returned success without a goodbye
C8_Witness ==
  /\ pc = "done"
  /\ rc = 1
  /\ calls["write_goodbye"] = 0

\* C9: at the return the three releases have each been made exactly once
\* (and never before the exit), the directory handle has been closed exactly
\* when it was opened, nothing of them is still held, a session that failed
\* returns failure, and no step outside the transfer loop was made twice.
C9_TeardownOnEveryExit ==
  /\ pc = "done" =>
       /\ calls["flist_free_fl"] = 1
       /\ calls["flist_free_dfl"] = 1
       /\ calls["free_newdir"] = 1
       /\ calls["close"] = (IF dfd # -1 THEN 1 ELSE 0)
       /\ live \cap {"fl", "dfl", "newdir", "dfd"} = {}
       /\ failed_at # NULL => rc = 0
  /\ pc # "done" =>
       /\ calls["flist_free_fl"] = 0
       /\ calls["flist_free_dfl"] = 0
       /\ calls["free_newdir"] = 0
       /\ calls["close"] = 0
  /\ \A op \in Ops : calls[op] <= 1

\* C9 witness: a failure in the directory fixup, everything released
C9_Witness ==
  /\ pc = "done"
  /\ failed_at = "post_dir"
  /\ calls["close"] = 1
  /\ ~dfl.null
  /\ live \cap {"fl", "dfl", "newdir", "dfd"} = {}

C11_PreambleOnlyWhenServer ==
  /\ calls["write_preamble"] > 0 => opts.server
  /\ calls["sess_stats_recv"] > 0 => calls["write_preamble"] = 0

\* C11 amended: the zero preamble is written at most once, before the file
\* list is received, and exactly by the top-level driver (the process that is
\* not a server), which is the role that reads the statistics; a server
\* writes no preamble and reads no statistics.
C11_PreambleOnlyWhenTopLevel ==
  /\ calls["write_preamble"] <= 1
  /\ calls["write_preamble"] > 0 => ~opts.server
  /\ opts.server =>
       /\ calls["write_preamble"] = 0
       /\ calls["sess_stats_recv"] = 0
  /\ pc = "preamble" => calls["flist_recv"] = 0
  /\ (calls["flist_recv"] > 0 /\ ~opts.server) => calls["write_preamble"] = 1
  /\ calls["sess_stats_recv"] > 0 => calls["write_preamble"] = 1

\* C11 witness: a top-level driver that wrote the preamble, received a list
\* and read the statistics
C11_Witness ==
  /\ ~opts.server
  /\ calls["write_preamble"] = 1
  /\ calls["sess_stats_recv"] = 1
  /\ flsz > 0
  /\ pc = "goodbye"

\* C12: directory metadata is applied only after the transfer loop was left
\* through a zero result of the Downloader (the phase is then past
\* Phase1Active): none is applied while the session is before or inside the
\* loop, where calls of the Uploader or Downloader are still to come, and no
\* directory gets the same metadata call twice.
C12_FixupAfterLoop ==
  /\ pc \in {"pledge", "preamble", "flist_recv", "io_error", "empty",
             "mkpath", "umask", "open", "flist_gen_local", "unveil",
             "lockdown", "flist_del", "calloc", "poll", "uploader",
             "downloader", "rsync_downloader", "post"} => post = <<>>
  /\ pc \in {"post", "post_dir"} =>
       /\ phase = 1
       /\ "downloader" \in ran
       /\ "downloader" \in invoked
  /\ post # <<>> =>
       /\ phase >= 1
       /\ "downloader" \in ran
       /\ pc \in {"post_dir", "phase_end", "phase_ack", "stats", "goodbye",
                  "out", "done"}
  /\ \A a, b \in DOMAIN post :
       (post[a].path = post[b].path /\ post[a].op = post[b].op) => a = b

\* C12 witness: a session done after both calls on each of two directories,
\* with Uploader and Downloader calls behind it
C12_Witness ==
  /\ pc = "done"
  /\ rc = 1
  /\ Len(post) = 4
  /\ invoked = {"uploader", "downloader"}

\* C13: every readiness wait of the transfer loop is made with a timeout
\* computed from the cursor and the second descriptor as they are at that
\* iteration: infinite exactly when the cursor equals the list length or a
\* second descriptor is pending, zero (non-blocking) otherwise.
C13_TimeoutPolicy ==
  [][pc = "poll" =>
       /\ timeo' \in {INFTIM, 0}
       /\ timeo' = INFTIM <=> (i = flsz \/ pfd1 # -1)
       /\ timeo' = 0 <=> (i # flsz /\ pfd1 = -1)]_vars

\* C13 witness: an infinite wait has returned while entries are still to be
\* examined, because a second descriptor is pending
C13_Witness ==
  /\ pc = "uploader"
  /\ timeo = INFTIM
  /\ i < flsz
  /\ pfd1 # -1

\* C14: an iteration that passed the readiness checks comes to the Uploader
\* step once, with no call made yet in that iteration; the step calls the
\* Uploader exactly when the cursor is not exhausted or the second descriptor
\* is readable, and leaves cursor, descriptor and flags alone otherwise; an
\* iteration that polled without blocking always calls it; a negative result
\* sends the session to its failure exit with no Downloader call in that
\* iteration.
C14_UploaderOncePerIteration ==
  [][pc = "uploader" =>
       /\ ran = {}
       /\ "uploader" \in ran' <=> (i < flsz \/ "POLLIN" \in revents[2])
       /\ "uploader" \notin ran' =>
            /\ pc' = "downloader"
            /\ UNCHANGED <<i, pfd1, newdir>>
       /\ timeo = 0 => "uploader" \in ran'
       /\ pc' \in {"downloader", "out"}
       /\ pc' = "out" =>
            /\ failed_at' = "uploader"
            /\ ran' = {"uploader"}
            /\ rc' = 0
       /\ pc' = "downloader" => failed_at' = NULL]_vars

\* C14 witness: the Uploader was called after a non-blocking poll and took
\* the cursor to the end of the list
C14_Witness ==
  /\ pc = "downloader"
  /\ ran = {"uploader"}
  /\ timeo = 0
  /\ i = flsz

\* C15: an iteration comes to the call of the Downloader only from the test
\* of the inbound stream, with that stream readable and, in multiplexed
\* mode, with payload left by the flush, and with no Downloader call made
\* yet in that iteration; the test itself calls nothing; the call either
\* fails the session, or goes round the loop again, or leaves the loop with
\* the phase advanced, and nothing else leaves the loop to post-processing.
C15_DownloaderOncePerIteration ==
  [][/\ pc = "downloader" =>
          /\ pc' \in {"rsync_downloader", "poll", "out"}
          /\ UNCHANGED <<dl, invoked, phase>>
          /\ "downloader" \notin ran
          /\ pc' = "rsync_downloader" =>
               /\ "POLLIN" \in revents[1]
               /\ mplex_reads => remain' > 0
               /\ "downloader" \notin ran'
          /\ "POLLIN" \notin revents[1] => pc' = "poll"
          /\ pc' = "out" =>
               /\ mplex_reads
               /\ failed_at' = "downloader"
               /\ rc' = 0
     /\ pc' = "rsync_downloader" => pc = "downloader"
     /\ pc = "rsync_downloader" =>
          /\ pc' \in {"out", "poll", "post"}
          /\ "downloader" \in invoked'
          /\ pc' = "out" =>
               /\ failed_at' = "rsync_downloader"
               /\ rc' = 0
               /\ phase' = phase
          /\ pc' = "poll" =>
               /\ failed_at' = NULL
               /\ phase' = phase
          /\ pc' = "post" =>
               /\ failed_at' = NULL
               /\ phase = 0
               /\ phase' = 1
     /\ pc' = "post" => pc = "rsync_downloader"]_vars

\* C15 witness: in multiplexed mode the Downloader is about to be called
\* with payload left, after an earlier call that kept a download open
C15_Witness ==
  /\ pc = "rsync_downloader"
  /\ mplex_reads
  /\ remain > 0
  /\ "POLLIN" \in revents[1]
  /\ dl # NULL

\* C16: the phase is 0, 1 or 2 and every step leaves it alone or adds one;
\* it goes from 0 to 1 only at the call of the Downloader that leaves the
\* loop, so the assertion 0 == phase made there never fails; it goes from 1
\* to 2 only at the read of the acknowledgement, after the phase-end -1 was
\* written and with -1 read; a session that returns success after a
\* transfer loop (every non-empty one) has phase 2.
C16_PhaseForwardOnly ==
  [][/\ phase \in 0..2
     /\ phase' \in {phase, phase + 1}
     /\ pc' # "abort"
     /\ (phase = 0 /\ phase' = 1) =>
          /\ pc = "rsync_downloader"
          /\ pc' = "post"
     /\ (phase = 1 /\ phase' = 2) =>
          /\ pc = "phase_ack"
          /\ calls["write_phase_end"] = 1
          /\ Len(ints_read') = 2
          /\ ints_read'[2] = -1
     /\ phase' = 2 => phase >= 1
     /\ (pc' = "done" /\ rc' = 1 /\ (flsz > 0 \/ opts.server)) => phase' = 2
     /\ pc' \in {"post", "post_dir", "phase_end", "phase_ack"} => phase' = 1
     /\ pc' \in {"stats", "goodbye"} => phase' = 2]_vars

\* C16 witness: a non-empty session returned success in phase 2
C16_Witness ==
  /\ pc = "done"
  /\ rc = 1
  /\ flsz > 0
  /\ phase = 2
  /\ ints_read = <<0, -1>>
  /\ "downloader" \in invoked

\* p names a directory above q
IsAncestor(p, q) == Len(p) < Len(q) /\ SubSeq(q, 1, Len(p)) = p

\* C17 as stated: whenever metadata has been applied to two directories of
\* which one lies beneath the other, every call on the descendant was made
\* before every call on the ancestor.
C17_PostOrder ==
  \A j, k \in DOMAIN post :
    IsAncestor(post[j].path, post[k].path) => k < j

\* the paths post_dir has applied the recorded mode to
ModeApplied ==
  { post[k].path :
      k \in { n \in DOMAIN post :
                post[n].op = "fchmodat" /\
                \E e \in 1..flsz :
                  fl[e].path = post[n].path /\ fl[e].mode = post[n].arg } }

\* C18 as stated: in a recursive session without simulation whose fixup has
\* run to its end, every directory flagged as freshly created has had its
\* recorded mode applied, whatever the preservation options are, and a
\* directory neither flagged nor under permission preservation has had no
\* mode applied.
C18_FreshDirsGetMode ==
  (PostDone /\ opts.recursive /\ ~opts.dry_run) =>
    \A k \in 1..flsz :
      S_ISDIR(fl[k].mode) =>
        /\ newdir[k] # 0 => fl[k].path \in ModeApplied
        /\ (newdir[k] = 0 /\ ~opts.preserve_perms) =>
             fl[k].path \notin ModeApplied

\* C19 as stated: when the session has returned, on success or on failure,
\* no download handle and no second descriptor is still held.
C19_NothingOutstanding ==
  pc = "done" =>
    /\ dl = NULL
    /\ pfd1 = -1
    /\ live \cap {"dl", "fd1"} = {}

\* the remote ends the phase or goes away: the poll of line 245 reports a
\* hangup of the inbound descriptor, or the downloader call of line 295
\* returns zero
EndOfPhaseOrHangup ==
  \/ Poll /\ "POLLHUP" \in revents'[1]
  \/ RsyncDownloader /\ phase' = phase + 1

\* C20: a session that keeps running (its next statement is always executed,
\* and an infinite wait returns because a descriptor becomes ready), talking
\* to a remote that eventually ends the phase or hangs up, returns: the
\* transfer loop does not go round forever.
C20_Terminates == <>(pc = "done")

\* C20 witness: a session returned after the cursor had gone through a list
\* of more than one entry and both Uploader and Downloader had been called
C20_Witness ==
  /\ pc = "done"
  /\ flsz > 1
  /\ i = flsz
  /\ invoked = {"uploader", "downloader"}
  /\ phase = 2

(* ---------------------------- specification ----------------------------- *)

Next ==
  \/ Pledge
  \/ Preamble
  \/ FlistRecv
  \/ IoError
  \/ Empty
  \/ Mkpath
  \/ Umask
  \/ Open
  \/ FlistGenLocal
  \/ Unveil
  \/ Lockdown
  \/ FlistDel
  \/ Calloc
  \/ Poll
  \/ Uploader
  \/ Downloader
  \/ RsyncDownloader
  \/ Post
  \/ PostDir
  \/ PhaseEnd
  \/ PhaseAck
  \/ Stats
  \/ Goodbye
  \/ Out

Spec == Init /\ [][Next]_vars

\* the sessions whose termination is checked: deletion, which is read only
\* before the transfer loop, and the simulation mode are off; the loop reads
\* neither
LiveInit == Init /\ ~opts.del /\ ~opts.dry_run

\* the same program under the conditions of a live session: rsync_receiver
\* is sequential code, so a statement that can be executed is executed (an
\* infinite wait returns because a pending descriptor becomes readable or
\* fails, or the remote sends or hangs up), and a remote that can end the
\* phase or hang up again and again does so at some time
LiveSpec ==
  /\ LiveInit
  /\ [][Next]_vars
  /\ WF_vars(Next)
  /\ SF_vars(EndOfPhaseOrHangup)

====
